---- MODULE Spec2Model ----
(***************************************************************************)
(* DeKeyBounce: a daemon that swallows bouncing key presses.               *)
(*                                                                         *)
(* The model follows src/DeKeyBounce.c (the second source file has the     *)
(* same OnKeyEvent, Init and Deinit).  The per-key table theKeySet is a    *)
(* CFMutableSet of KeyData records whose equality and hash callbacks look  *)
(* at nKeyCode only; OnKeyEvent is the event-tap callback that decides for *)
(* every key-down and key-up whether the event is passed on (the callback  *)
(* returns the event) or swallowed (it returns NULL).                      *)
(*                                                                         *)
(* Machine integers are uint64_t in the source.  TLC's integers are 32 bit *)
(* wide, so the model keeps the modular arithmetic but over a narrower     *)
(* word of WordBits bits, wide enough for the default threshold of         *)
(* 20 ms = 20000000 ns to be represented without wrapping.                 *)
(***************************************************************************)
EXTENDS Integers, FiniteSets, Sequences, TLC

(***************************************************************************)
(* Bounds of the model.                                                    *)
(***************************************************************************)
WordBits == 27
NumKeys == 2
MaxPending == 2

Modulus == 2 ^ WordBits
MaxWord == Modulus - 1

KeyCodes == 1 .. NumKeys

(* Start-up arguments tried: the numbers 0, 1 and 20 and the smallest      *)
(* number of milliseconds whose product with 1000000 = 2^6 * 15625 is a    *)
(* multiple of the word's modulus (2^58 for the 64-bit word).              *)
ArgValues == {0, 1, 20, 2 ^ (WordBits - 6)}

(* Event timestamps tried (ns): zero, 0.5 ms, 2 ms, 25 ms, the largest     *)
(* value of the word.                                                      *)
Timestamps == {0, 500000, 2000000, 25000000, MaxWord}

(* Fewer of them, for the specifications with more start-ups or more       *)
(* history: zero, 2 ms, the largest value of the word.                     *)
ShortTimestamps == {0, 2000000, MaxWord}

(* One of them, 2 ms, and one key, for the specifications of the process's *)
(* life, where the steps of main(), of the run loop and of the signal      *)
(* handler are taken one at a time.                                        *)
LifeTimestamps == {2000000}
LifeKeys == {1}

(***************************************************************************)
(* Program constants.                                                      *)
(***************************************************************************)
DEFAULT_MIN_TIMESTAMP_DIFF == 20
NS_PER_MS == 1000000

kCGEventKeyDown == "kCGEventKeyDown"
kCGEventKeyUp == "kCGEventKeyUp"

(* The value of nLastKeyUpTimestamp that OnKeyEvent reads as "the last     *)
(* key-down was swallowed, the key is still held".                         *)
PRESSED == 0

(* A NULL KeyData pointer (CFSetGetValue found nothing).                   *)
NULL == [null |-> TRUE]

(* What the callback returns: the event itself, or NULL.                   *)
Pass == "Pass"
Swallow == "Swallow"

(***************************************************************************)
(* State.                                                                  *)
(*   pc                  where main() is                                   *)
(*   theMinTimestampDiff the threshold, ns                                 *)
(*   theKeySet           the CFMutableSetRef: "NULL" or "valid"            *)
(*   keySetValues        the KeyData records held by the set               *)
(*   theEventTap, theEventTapSource   "NULL" or "valid"                    *)
(*   exitStatus          the value main() returned, -1 while it runs       *)
(*   argv                the command line after argv[0]: no argument or    *)
(*                       one string                                        *)
(* The process around the engine:                                          *)
(*   build               which of the two source files runs:               *)
(*                       "DeKeyBounce.c" (the signal handler sends a       *)
(*                       message to a Mach port of the run loop) or        *)
(*                       "part_000" (the signal handler stops the run loop *)
(*                       itself)                                           *)
(*   euid, ppid          what geteuid() and getppid() return               *)
(*   theSignalPort, theSignalSource   "NULL" or "valid"                    *)
(*   theRawSignalPort    "MACH_PORT_NULL" or "valid"                       *)
(*   sigaction           per signal: "SIG_DFL", "SIG_IGN", "SignalHandler" *)
(*   portQueue           the msgh_id of the messages queued on the signal  *)
(*                       port                                              *)
(*   stopped             CFRunLoopStop() was called on the running loop    *)
(*   inCallback          the key event OnKeyEvent is working on, NoEvent   *)
(*                       between calls                                     *)
(*   isSuccess           what Init() returned                              *)
(*   created             the resources created so far                      *)
(*   freed               the resources released so far, in order           *)
(*   ranLoop             CFRunLoopRun() was entered                        *)
(*   termSent            a SIGINT or SIGTERM was delivered to the process  *)
(*                       while the run loop was running                    *)
(* History of the evaluated events, kept for the properties:               *)
(*   released            keys for which a key-up has been evaluated        *)
(*   owed                keys for which a key-down has been swallowed and  *)
(*                       no key-up has been evaluated since                *)
(*   lastDown            per key, the verdict of the latest key-down if no *)
(*                       key-up has been evaluated since, else "none"      *)
(*   solo                per key, the table of an engine that was given    *)
(*                       that key's events only                            *)
(*   last                the event evaluated last, its verdict and the     *)
(*                       state it was evaluated in                         *)
(*   input               what the events evaluated so far are known to be  *)
(*                       like: "ordered" when every key's events alternate *)
(*                       strictly between key-down and key-up and the      *)
(*                       timestamps never decrease, "alternating" when     *)
(*                       only the first holds, "any" when it does not or   *)
(*                       the input is not watched                          *)
(*   lastUp              per key, the timestamp of the latest key-up       *)
(*                       evaluated, -1 when there is none; kept while the  *)
(*                       input is "ordered"                                *)
(*   lastPassed          per key, the kind of the latest event that was    *)
(*                       passed, "none" when there is none; kept while the *)
(*                       input is not "any"                                *)
(*   twin                the table of an engine started with the argument  *)
(*                       "20" and given the same events, kept when this    *)
(*                       one was started with no argument or with one that *)
(*                       parses to 0                                       *)
(*   scen                how many events of Scenario the events evaluated  *)
(*                       so far are, in order; -1 once they are not a      *)
(*                       prefix of it                                      *)
(***************************************************************************)
VARIABLES pc, theMinTimestampDiff, theKeySet, keySetValues, theEventTap,
          theEventTapSource, exitStatus, argv, released, owed, lastDown, solo,
          last, scen, twin, input, lastUp, lastPassed,
          build, euid, ppid, theSignalPort, theSignalSource, theRawSignalPort,
          sigaction, portQueue, stopped, inCallback, isSuccess, created,
          freed, ranLoop, termSent

history == <<released, owed, lastDown, solo, last, scen, twin, input, lastUp,
             lastPassed>>

(* The process around the engine: signals, run loop, what main() holds.    *)
process == <<build, euid, ppid, theSignalPort, theSignalSource,
             theRawSignalPort, sigaction, portQueue, stopped, inCallback,
             isSuccess, created, freed, ranLoop, termSent>>

vars == <<pc, theMinTimestampDiff, theKeySet, keySetValues, theEventTap,
          theEventTapSource, exitStatus, argv, history, process>>

NoEvent == [aEventType |-> "none"]

(***************************************************************************)
(* Signals and the signal dispositions the two files install.              *)
(***************************************************************************)
SIGHUP == "SIGHUP"
SIGINT == "SIGINT"
SIGTERM == "SIGTERM"
SIGPIPE == "SIGPIPE"

Signals == {SIGHUP, SIGINT, SIGTERM, SIGPIPE}

Builds == {"DeKeyBounce.c", "part_000"}

NoHandlers == [sig \in Signals |-> "SIG_DFL"]

(* What InitSignalHandling() of DeKeyBounce.c installs.                    *)
MachHandlers ==
    [sig \in Signals |-> IF sig = SIGPIPE THEN "SIG_IGN" ELSE "SignalHandler"]

(* What main() of part_000 installs with signal().                         *)
PlainHandlers ==
    [sig \in Signals |->
        IF sig \in {SIGINT, SIGTERM} THEN "SignalHandler" ELSE "SIG_DFL"]

(***************************************************************************)
(* The scenario of the specification, section 8: one key, minInterval      *)
(* 20 ms, times in ns.                                                     *)
(***************************************************************************)
ScenarioKey == 1

ScenarioTimestamps == {0, 5000000, 8000000, 40000000, 60000000}

Scenario ==
    << [aEventType |-> kCGEventKeyUp,   nKeyCode |-> ScenarioKey, nTimestamp |-> 0],
       [aEventType |-> kCGEventKeyDown, nKeyCode |-> ScenarioKey, nTimestamp |-> 5000000],
       [aEventType |-> kCGEventKeyUp,   nKeyCode |-> ScenarioKey, nTimestamp |-> 8000000],
       [aEventType |-> kCGEventKeyDown, nKeyCode |-> ScenarioKey, nTimestamp |-> 40000000],
       [aEventType |-> kCGEventKeyUp,   nKeyCode |-> ScenarioKey, nTimestamp |-> 60000000] >>

ScenarioStep(n, aEventType, k, t) ==
    IF /\ n >= 0
       /\ n < Len(Scenario)
       /\ Scenario[n + 1] = [aEventType |-> aEventType, nKeyCode |-> k,
                             nTimestamp |-> t]
    THEN n + 1
    ELSE -1

(***************************************************************************)
(* The set callbacks and the CFSet operations as OnKeyEvent uses them.     *)
(***************************************************************************)
IsKeyDataEqualAlways(pValue1, pValue2) == TRUE

IsKeyDataEqual(pValue1, pValue2) == pValue1.nKeyCode = pValue2.nKeyCode

RetainKeyData(pValue) ==
    [nKeyCode |-> pValue.nKeyCode,
     nLastKeyUpTimestamp |-> pValue.nLastKeyUpTimestamp]

CFSetGetValue(set, pValue) ==
    IF \E r \in set : IsKeyDataEqual(r, pValue)
    THEN CHOOSE r \in set : IsKeyDataEqual(r, pValue)
    ELSE NULL

CFSetAddValue(set, pValue) ==
    IF \E r \in set : IsKeyDataEqual(r, pValue)
    THEN set
    ELSE set \cup {RetainKeyData(pValue)}

(* pOldKeyData->nLastKeyUpTimestamp = nTimestamp: the record is changed in *)
(* place, the set holds the same object.                                   *)
StoreTimestampCopy(set, pOldKeyData, nTimestamp) ==
    set \cup {[pOldKeyData EXCEPT !.nLastKeyUpTimestamp = nTimestamp]}

StoreTimestamp(set, pOldKeyData, nTimestamp) ==
    (set \ {pOldKeyData})
        \cup {[pOldKeyData EXCEPT !.nLastKeyUpTimestamp = nTimestamp]}

(***************************************************************************)
(* OnKeyEvent.  The result is the new contents of the set and the verdict. *)
(***************************************************************************)
Result(set, verdict) == [set |-> set, verdict |-> verdict]

KeyDownCreates(set, aNewKeyData, pOldKeyData, minDiff) ==
    IF pOldKeyData = NULL
    THEN Result(CFSetAddValue(set, aNewKeyData), Pass)
    ELSE IF pOldKeyData.nLastKeyUpTimestamp = PRESSED
    THEN Result(set, Swallow)
    ELSE IF aNewKeyData.nLastKeyUpTimestamp
              < (pOldKeyData.nLastKeyUpTimestamp + minDiff) % Modulus
    THEN Result(StoreTimestamp(set, pOldKeyData, PRESSED), Swallow)
    ELSE Result(set, Pass)

KeyDownForgets(set, aNewKeyData, pOldKeyData, minDiff) ==
    IF pOldKeyData = NULL
    THEN Result(set, Pass)
    ELSE IF pOldKeyData.nLastKeyUpTimestamp = PRESSED
    THEN Result(set, Swallow)
    ELSE IF aNewKeyData.nLastKeyUpTimestamp
              < (pOldKeyData.nLastKeyUpTimestamp + minDiff) % Modulus
    THEN Result(set, Swallow)
    ELSE Result(set, Pass)

KeyDown(set, aNewKeyData, pOldKeyData, minDiff) ==
    IF pOldKeyData = NULL
    THEN Result(set, Pass)
    ELSE IF pOldKeyData.nLastKeyUpTimestamp = PRESSED
    THEN Result(set, Swallow)
    ELSE IF aNewKeyData.nLastKeyUpTimestamp
              < (pOldKeyData.nLastKeyUpTimestamp + minDiff) % Modulus
    THEN Result(StoreTimestamp(set, pOldKeyData, PRESSED), Swallow)
    ELSE Result(set, Pass)

KeyUpTimed(set, aNewKeyData, pOldKeyData, minDiff) ==
    IF pOldKeyData = NULL
    THEN Result(CFSetAddValue(set, aNewKeyData), Pass)
    ELSE IF pOldKeyData.nLastKeyUpTimestamp = PRESSED
    THEN Result(StoreTimestamp(set, pOldKeyData,
                               aNewKeyData.nLastKeyUpTimestamp), Swallow)
    ELSE IF aNewKeyData.nLastKeyUpTimestamp
              < (pOldKeyData.nLastKeyUpTimestamp + minDiff) % Modulus
    THEN Result(StoreTimestamp(set, pOldKeyData,
                               aNewKeyData.nLastKeyUpTimestamp), Swallow)
    ELSE Result(StoreTimestamp(set, pOldKeyData,
                               aNewKeyData.nLastKeyUpTimestamp), Pass)

KeyUpUnpaired(set, aNewKeyData, pOldKeyData, minDiff) ==
    IF pOldKeyData = NULL
    THEN Result(CFSetAddValue(set, aNewKeyData), Pass)
    ELSE Result(StoreTimestamp(set, pOldKeyData,
                               aNewKeyData.nLastKeyUpTimestamp), Pass)

KeyUp(set, aNewKeyData, pOldKeyData, minDiff) ==
    IF pOldKeyData = NULL
    THEN Result(CFSetAddValue(set, aNewKeyData), Pass)
    ELSE IF pOldKeyData.nLastKeyUpTimestamp = PRESSED
    THEN Result(StoreTimestamp(set, pOldKeyData,
                               aNewKeyData.nLastKeyUpTimestamp), Swallow)
    ELSE Result(StoreTimestamp(set, pOldKeyData,
                               aNewKeyData.nLastKeyUpTimestamp), Pass)

OnKeyEvent(set, aEventType, nKeyCode, nTimestamp, minDiff) ==
    LET aNewKeyData == [nKeyCode |-> nKeyCode,
                        nLastKeyUpTimestamp |-> nTimestamp]
        pOldKeyData == CFSetGetValue(set, aNewKeyData)
    IN  IF aEventType = kCGEventKeyDown
        THEN KeyDown(set, aNewKeyData, pOldKeyData, minDiff)
        ELSE KeyUp(set, aNewKeyData, pOldKeyData, minDiff)

(***************************************************************************)
(* main(): the threshold from the command line.  A string is a sequence of *)
(* characters, a character a digit 0..9 or NotADigit.                      *)
(***************************************************************************)
NotADigit == 10

RECURSIVE Digits(_)
Digits(n) == IF n < 10 THEN <<n>> ELSE Append(Digits(n \div 10), n % 10)

(* strtoul(str, NULL, 10): the leading digits, ULONG_MAX when they do not  *)
(* fit the word, 0 when there are none.                                    *)
RECURSIVE StrtoulFrom(_, _, _)
StrtoulFrom(str, i, acc) ==
    IF i > Len(str) \/ str[i] = NotADigit
    THEN acc
    ELSE IF acc > (MaxWord - str[i]) \div 10
    THEN MaxWord
    ELSE StrtoulFrom(str, i + 1, acc * 10 + str[i])

Strtoul(str) == StrtoulFrom(str, 1, 0)

(* a * b in the unsigned arithmetic of the word, by shift and add.         *)
RECURSIVE MulMod(_, _)
MulMod(a, b) ==
    IF b = 0
    THEN 0
    ELSE (MulMod((2 * a) % Modulus, b \div 2)
             + (IF b % 2 = 1 THEN a ELSE 0)) % Modulus

MinTimestampDiffNoDefault(args) ==
    LET parsed == IF Len(args) + 1 > 1 THEN Strtoul(args[1]) ELSE 0
    IN  MulMod(parsed, NS_PER_MS)

MinTimestampDiff(args) ==
    LET parsed == IF Len(args) + 1 > 1 THEN Strtoul(args[1]) ELSE 0
        ms == IF parsed = 0 THEN DEFAULT_MIN_TIMESTAMP_DIFF ELSE parsed
    IN  MulMod(ms, NS_PER_MS)

(* The command lines tried: no argument, the numbers of ArgValues in       *)
(* decimal, a string that is no number, a number too long for the word.    *)
ArgStrings ==
    {Digits(n) : n \in ArgValues}
        \cup {<<NotADigit>>, Append(Digits(MaxWord), 0)}

CommandLines == {<<>>} \cup {<<str>> : str \in ArgStrings}

(* No argument, and the argument "1".                                      *)
BasicCommandLines == {<<>>, <<Digits(1)>>}

(* The start-up selects the default threshold.                             *)
SelectsDefault(args) == Len(args) = 0 \/ Strtoul(args[1]) = 0

(***************************************************************************)
(* The records of one key, and what the table says about a key.            *)
(***************************************************************************)
RecordsOf(set, k) == {r \in set : r.nKeyCode = k}

HasRecord(set, k) == RecordsOf(set, k) # {}

IsPressed(set, k) ==
    \E r \in RecordsOf(set, k) : r.nLastKeyUpTimestamp = PRESSED

(***************************************************************************)
(* Initial state: main() has been entered, nothing is acquired.  The       *)
(* command line is one of lines; the input is watched for being ordered    *)
(* when watch is "ordered"; the file is one of builds, the user id one of  *)
(* euids, the parent's process id one of ppids.                            *)
(***************************************************************************)
InitWith(lines, watch, builds, euids, ppids) ==
    /\ build \in builds
    /\ euid \in euids
    /\ ppid \in ppids
    /\ theSignalPort = "NULL"
    /\ theSignalSource = "NULL"
    /\ theRawSignalPort = "MACH_PORT_NULL"
    /\ sigaction = NoHandlers
    /\ portQueue = <<>>
    /\ stopped = FALSE
    /\ inCallback = NoEvent
    /\ isSuccess = FALSE
    /\ created = {}
    /\ freed = <<>>
    /\ ranLoop = FALSE
    /\ termSent = FALSE
    /\ pc = "main"
    /\ theMinTimestampDiff = 0
    /\ theKeySet = "NULL"
    /\ keySetValues = {}
    /\ theEventTap = "NULL"
    /\ theEventTapSource = "NULL"
    /\ exitStatus = -1
    /\ argv \in lines
    /\ released = {}
    /\ owed = {}
    /\ lastDown = [k \in KeyCodes |-> "none"]
    /\ solo = [k \in KeyCodes |-> {}]
    /\ last = NoEvent
    /\ scen = 0
    /\ twin = {}
    /\ input = watch
    /\ lastUp = [k \in KeyCodes |-> -1]
    /\ lastPassed = [k \in KeyCodes |-> "none"]

Init == InitWith(BasicCommandLines, "any", {"DeKeyBounce.c"}, {0}, {1})

(* Every command line of CommandLines.                                     *)
InitConfig == InitWith(CommandLines, "any", {"DeKeyBounce.c"}, {0}, {1})

(* The input is watched.                                                   *)
InitOrdered ==
    InitWith(BasicCommandLines, "ordered", {"DeKeyBounce.c"}, {0}, {1})

(* main() up to CFRunLoopRun(), the checks passing and every acquisition   *)
(* succeeding.                                                             *)
Startup ==
    /\ pc = "main"
    /\ euid = 0
    /\ ppid = 1
    /\ theMinTimestampDiff' = MinTimestampDiff(argv)
    /\ theKeySet' = "valid"
    /\ keySetValues' = {}
    /\ theEventTap' = "valid"
    /\ theEventTapSource' = "valid"
    /\ theSignalPort' = "valid"
    /\ theSignalSource' = "valid"
    /\ theRawSignalPort' = "valid"
    /\ sigaction' = IF build = "DeKeyBounce.c" THEN MachHandlers
                    ELSE PlainHandlers
    /\ isSuccess' = TRUE
    /\ created' = {"theSignalPort", "theSignalSource", "theKeySet",
                   "theEventTap", "theEventTapSource"}
    /\ ranLoop' = TRUE
    /\ pc' = "running"
    /\ UNCHANGED <<exitStatus, argv, history, build, euid, ppid, portQueue,
                   stopped, inCallback, freed, termSent>>

(* The kind of the latest event evaluated for a key, "none" when there is  *)
(* none.                                                                   *)
PrevKind(k) ==
    IF lastDown[k] # "none" THEN kCGEventKeyDown
    ELSE IF k \in released THEN kCGEventKeyUp
    ELSE "none"

(* What the input is like once the event (aEventType, k, t) is added.      *)
InputAfter(aEventType, k, t) ==
    IF input = "any" \/ PrevKind(k) = aEventType
    THEN "any"
    ELSE IF input = "ordered"
            /\ (last.aEventType # "none" => last.nTimestamp <= t)
    THEN "ordered"
    ELSE "alternating"

(* One call of OnKeyEvent on the table, and what the history keeps of it.  *)
Evaluate(aEventType, k, t) ==
       LET res == OnKeyEvent(keySetValues, aEventType, k, t,
                             theMinTimestampDiff)
           alone == OnKeyEvent(solo[k], aEventType, k, t,
                               theMinTimestampDiff)
           other == OnKeyEvent(twin, aEventType, k, t,
                               MinTimestampDiff(<<Digits(20)>>))
       IN  /\ keySetValues' = res.set
           /\ solo' = [solo EXCEPT ![k] = alone.set]
           /\ released' = IF aEventType = kCGEventKeyUp
                          THEN released \cup {k} ELSE released
           /\ owed' = IF aEventType = kCGEventKeyUp THEN owed \ {k}
                      ELSE IF res.verdict = Swallow THEN owed \cup {k}
                      ELSE owed
           /\ lastDown' = [lastDown EXCEPT ![k] =
                              IF aEventType = kCGEventKeyUp THEN "none"
                              ELSE res.verdict]
           /\ last' = [aEventType |-> aEventType,
                       nKeyCode |-> k,
                       nTimestamp |-> t,
                       verdict |-> res.verdict,
                       soloVerdict |-> alone.verdict,
                       twinVerdict |-> IF SelectsDefault(argv)
                                       THEN other.verdict ELSE res.verdict,
                       oldValues |-> keySetValues,
                       oldOwed |-> k \in owed,
                       oldLastDown |-> IF input = "any" THEN "none"
                                       ELSE lastDown[k],
                       oldLastUp |-> lastUp[k],
                       oldLastPassed |-> lastPassed[k]]
           /\ input' = InputAfter(aEventType, k, t)
           /\ lastUp' = IF input' # "ordered"
                        THEN [j \in KeyCodes |-> -1]
                        ELSE IF aEventType = kCGEventKeyUp
                        THEN [lastUp EXCEPT ![k] = t]
                        ELSE lastUp
           /\ lastPassed' = IF input' = "any"
                            THEN [j \in KeyCodes |-> "none"]
                            ELSE IF res.verdict = Pass
                            THEN [lastPassed EXCEPT ![k] = aEventType]
                            ELSE lastPassed
           /\ scen' = ScenarioStep(scen, aEventType, k, t)
           /\ twin' = IF SelectsDefault(argv) THEN other.set ELSE twin

(* The run loop delivers one key event to the tap callback, which returns. *)
Deliver(aEventType, k, t) ==
    /\ pc = "running"
    /\ theEventTapSource = "valid"
    /\ inCallback = NoEvent
    /\ ~stopped
    /\ Evaluate(aEventType, k, t)
    /\ UNCHANGED <<pc, theMinTimestampDiff, theKeySet, theEventTap,
                   theEventTapSource, exitStatus, argv, process>>

KeyDownEvent == \E k \in KeyCodes : \E t \in Timestamps :
                    Deliver(kCGEventKeyDown, k, t)

KeyUpEvent == \E k \in KeyCodes : \E t \in Timestamps :
                  Deliver(kCGEventKeyUp, k, t)

(* The same deliveries with the timestamps of the scenario.                *)
KeyDownScenario == \E k \in KeyCodes : \E t \in ScenarioTimestamps :
                       Deliver(kCGEventKeyDown, k, t)

KeyUpScenario == \E k \in KeyCodes : \E t \in ScenarioTimestamps :
                     Deliver(kCGEventKeyUp, k, t)

(* SIGINT or SIGTERM stops the run loop; main() runs Deinit() and returns. *)
Shutdown ==
    /\ pc = "running"
    /\ inCallback = NoEvent
    /\ theEventTapSource' = "NULL"
    /\ theEventTap' = "NULL"
    /\ theKeySet' = "NULL"
    /\ keySetValues' = {}
    /\ theSignalPort' = "NULL"
    /\ theSignalSource' = "NULL"
    /\ theRawSignalPort' = "MACH_PORT_NULL"
    /\ sigaction' = NoHandlers
    /\ portQueue' = <<>>
    /\ stopped' = TRUE
    /\ termSent' = TRUE
    /\ freed' = freed \o <<"theEventTapSource", "theEventTap", "theKeySet",
                            "theSignalSource", "theSignalPort">>
    /\ exitStatus' = 0
    /\ pc' = "exit"
    /\ UNCHANGED <<theMinTimestampDiff, argv, history, build, euid, ppid,
                   inCallback, isSuccess, created, ranLoop>>

Next == Startup \/ KeyDownEvent \/ KeyUpEvent \/ Shutdown

Spec == Init /\ [][Next]_vars

(* The same deliveries with the timestamps of ShortTimestamps.             *)
KeyDownShort == \E k \in KeyCodes : \E t \in ShortTimestamps :
                    Deliver(kCGEventKeyDown, k, t)

KeyUpShort == \E k \in KeyCodes : \E t \in ShortTimestamps :
                  Deliver(kCGEventKeyUp, k, t)

NextShort == Startup \/ KeyDownShort \/ KeyUpShort \/ Shutdown

NextScenario == Startup \/ KeyDownScenario \/ KeyUpScenario \/ Shutdown

SpecScenario == Init /\ [][NextScenario]_vars

SpecConfig == InitConfig /\ [][NextShort]_vars

SpecOrdered == InitOrdered /\ [][NextShort]_vars

(***************************************************************************)
(* The life of the process, one step of main() at a time, with signals     *)
(* arriving in between and key events being evaluated while a signal       *)
(* arrives.  Both source files; the process is or is not run by root, from *)
(* init or not.                                                            *)
(***************************************************************************)
UserIds == {0, 501}
ParentIds == {1, 2}

InitLife == InitWith({<<>>}, "any", Builds, UserIds, ParentIds)

(* main(): the two checks on who runs the process.                         *)
CheckUser ==
    /\ pc = "main"
    /\ IF euid # 0 \/ ppid # 1
       THEN pc' = "exit" /\ exitStatus' = 1
       ELSE pc' = "InitSignalHandling" /\ UNCHANGED exitStatus
    /\ UNCHANGED <<theMinTimestampDiff, theKeySet, keySetValues, theEventTap,
                   theEventTapSource, argv, history, process>>

(* The steps of InitSignalHandling() that can fail, in order.              *)
SignalSteps ==
    <<"theSignalPort", "theSignalSource", SIGHUP, SIGINT, SIGTERM, SIGPIPE>>

(* InitSignalHandling() of DeKeyBounce.c: the steps before failAt succeed, *)
(* the step failAt fails (none when failAt is 0).  On a failure it calls   *)
(* DeinitSignalHandling() and main() returns 1.                            *)
InitSignalHandling(failAt) ==
    /\ pc = "InitSignalHandling"
    /\ build = "DeKeyBounce.c"
    /\ LET made == IF failAt = 0
                   THEN {"theSignalPort", "theSignalSource"}
                   ELSE {SignalSteps[i] : i \in 1 .. failAt - 1}
                            \cap {"theSignalPort", "theSignalSource"}
       IN  /\ created' = created \cup made
           /\ IF failAt = 0
              THEN /\ theSignalPort' = "valid"
                   /\ theSignalSource' = "valid"
                   /\ theRawSignalPort' = "valid"
                   /\ sigaction' = MachHandlers
                   /\ pc' = "threshold"
                   /\ UNCHANGED <<freed, exitStatus>>
              ELSE /\ theSignalPort' = "NULL"
                   /\ theSignalSource' = "NULL"
                   /\ theRawSignalPort' = "MACH_PORT_NULL"
                   /\ sigaction' = NoHandlers
                   /\ freed' = freed
                         \o (IF "theSignalSource" \in made
                             THEN <<"theSignalSource">> ELSE <<>>)
                         \o (IF "theSignalPort" \in made
                             THEN <<"theSignalPort">> ELSE <<>>)
                   /\ pc' = "exit"
                   /\ exitStatus' = 1
    /\ UNCHANGED <<theMinTimestampDiff, theKeySet, keySetValues, theEventTap,
                   theEventTapSource, argv, history, build, euid, ppid,
                   portQueue, stopped, inCallback, isSuccess, ranLoop,
                   termSent>>

(* main() of part_000: the two calls of signal(), whose result it does not *)
(* look at.                                                                *)
InstallSignalHandlers ==
    /\ pc = "InitSignalHandling"
    /\ build = "part_000"
    /\ sigaction' = PlainHandlers
    /\ pc' = "threshold"
    /\ UNCHANGED <<theMinTimestampDiff, theKeySet, keySetValues, theEventTap,
                   theEventTapSource, exitStatus, argv, history, build, euid,
                   ppid, theSignalPort, theSignalSource, theRawSignalPort,
                   portQueue, stopped, inCallback, isSuccess, created, freed,
                   ranLoop, termSent>>

(* main(): the threshold from the command line.                            *)
SetThreshold ==
    /\ pc = "threshold"
    /\ theMinTimestampDiff' = MinTimestampDiff(argv)
    /\ pc' = "Init_theKeySet"
    /\ UNCHANGED <<theKeySet, keySetValues, theEventTap, theEventTapSource,
                   exitStatus, argv, history, process>>

(* Init(): CFSetCreateMutable returns the set or NULL; on NULL Init() goes *)
(* on to Deinit().                                                         *)
InitKeySet(isCreated) ==
    /\ pc = "Init_theKeySet"
    /\ IF isCreated
       THEN /\ theKeySet' = "valid"
            /\ created' = created \cup {"theKeySet"}
            /\ pc' = "Init_theEventTap"
       ELSE /\ pc' = "Deinit_theEventTapSource"
            /\ UNCHANGED <<theKeySet, created>>
    /\ keySetValues' = {}
    /\ UNCHANGED <<theMinTimestampDiff, theEventTap, theEventTapSource,
                   exitStatus, argv, history, build, euid, ppid,
                   theSignalPort, theSignalSource, theRawSignalPort,
                   sigaction, portQueue, stopped, inCallback, isSuccess,
                   freed, ranLoop, termSent>>

(* Init(): CGEventTapCreate returns the tap or NULL.                       *)
InitEventTap(isCreated) ==
    /\ pc = "Init_theEventTap"
    /\ IF isCreated
       THEN /\ theEventTap' = "valid"
            /\ created' = created \cup {"theEventTap"}
            /\ pc' = "Init_theEventTapSource"
       ELSE /\ pc' = "Deinit_theEventTapSource"
            /\ UNCHANGED <<theEventTap, created>>
    /\ UNCHANGED <<theMinTimestampDiff, theKeySet, keySetValues,
                   theEventTapSource, exitStatus, argv, history, build, euid,
                   ppid, theSignalPort, theSignalSource, theRawSignalPort,
                   sigaction, portQueue, stopped, inCallback, isSuccess,
                   freed, ranLoop, termSent>>

(* Init(): a failure of the last creation that returns FALSE without       *)
(* calling Deinit().                                                       *)
InitEventTapSourceNoDeinit(isCreated) ==
    /\ pc = "Init_theEventTapSource"
    /\ IF isCreated
       THEN /\ theEventTapSource' = "valid"
            /\ created' = created \cup {"theEventTapSource"}
            /\ isSuccess' = TRUE
            /\ ranLoop' = TRUE
            /\ pc' = "running"
       ELSE /\ pc' = IF build = "DeKeyBounce.c" THEN "DeinitSignalHandling"
                     ELSE "return"
            /\ UNCHANGED <<theEventTapSource, created, isSuccess, ranLoop>>
    /\ UNCHANGED <<theMinTimestampDiff, theKeySet, keySetValues, theEventTap,
                   exitStatus, argv, history, build, euid, ppid,
                   theSignalPort, theSignalSource, theRawSignalPort,
                   sigaction, portQueue, stopped, inCallback, freed,
                   termSent>>

(* Init(): CFMachPortCreateRunLoopSource returns the source or NULL; with  *)
(* the source added to the run loop Init() returns TRUE and main() enters  *)
(* CFRunLoopRun().                                                         *)
InitEventTapSource(isCreated) ==
    /\ pc = "Init_theEventTapSource"
    /\ IF isCreated
       THEN /\ theEventTapSource' = "valid"
            /\ created' = created \cup {"theEventTapSource"}
            /\ isSuccess' = TRUE
            /\ ranLoop' = TRUE
            /\ pc' = "running"
       ELSE /\ pc' = "Deinit_theEventTapSource"
            /\ UNCHANGED <<theEventTapSource, created, isSuccess, ranLoop>>
    /\ UNCHANGED <<theMinTimestampDiff, theKeySet, keySetValues, theEventTap,
                   exitStatus, argv, history, build, euid, ppid,
                   theSignalPort, theSignalSource, theRawSignalPort,
                   sigaction, portQueue, stopped, inCallback, freed,
                   termSent>>

(* The run loop calls OnKeyEvent with a key event of the tap.  In          *)
(* DeKeyBounce.c the loop is stopped by a callback of its own and leaves   *)
(* before it serves another source; in part_000 the signal handler may     *)
(* stop it at any point, the callback about to be made included.           *)
TapCallbackBegin(aEventType, k, t) ==
    /\ pc = "running"
    /\ theEventTapSource = "valid"
    /\ inCallback = NoEvent
    /\ stopped => build = "part_000"
    /\ inCallback' = [aEventType |-> aEventType, nKeyCode |-> k,
                      nTimestamp |-> t]
    /\ UNCHANGED <<pc, theMinTimestampDiff, theKeySet, keySetValues,
                   theEventTap, theEventTapSource, exitStatus, argv, history,
                   build, euid, ppid, theSignalPort, theSignalSource,
                   theRawSignalPort, sigaction, portQueue, stopped, isSuccess,
                   created, freed, ranLoop, termSent>>

KeyDownBegins == \E k \in LifeKeys : \E t \in LifeTimestamps :
                     TapCallbackBegin(kCGEventKeyDown, k, t)

KeyUpBegins == \E k \in LifeKeys : \E t \in LifeTimestamps :
                   TapCallbackBegin(kCGEventKeyUp, k, t)

(* OnKeyEvent works on the table and returns.                              *)
TapCallbackEnd ==
    /\ inCallback # NoEvent
    /\ Evaluate(inCallback.aEventType, inCallback.nKeyCode,
                inCallback.nTimestamp)
    /\ inCallback' = NoEvent
    /\ UNCHANGED <<pc, theMinTimestampDiff, theKeySet, theEventTap,
                   theEventTapSource, exitStatus, argv, build, euid, ppid,
                   theSignalPort, theSignalSource, theRawSignalPort,
                   sigaction, portQueue, stopped, isSuccess, created, freed,
                   ranLoop, termSent>>

(* A SIGINT or SIGTERM reaches the process while the run loop runs.        *)
IsTermination(nSignal) == nSignal \in {SIGINT, SIGTERM} /\ pc = "running"

(* SignalHandler() of DeKeyBounce.c runs for a signal it is installed for: *)
(* it returns when the port is gone, else it sends the signal's number to  *)
(* the port; mach_msg_send queues the message (isSent) or fails, and the   *)
(* handler does not look at its result.                                    *)
SignalHandler(nSignal, isSent) ==
    /\ build = "DeKeyBounce.c"
    /\ pc # "exit"
    /\ sigaction[nSignal] = "SignalHandler"
    /\ isSent => Len(portQueue) < MaxPending
    /\ portQueue' = IF theRawSignalPort # "MACH_PORT_NULL" /\ isSent
                    THEN Append(portQueue, nSignal) ELSE portQueue
    /\ termSent' = (termSent \/ IsTermination(nSignal))
    /\ UNCHANGED <<pc, theMinTimestampDiff, theKeySet, keySetValues,
                   theEventTap, theEventTapSource, exitStatus, argv, history,
                   build, euid, ppid, theSignalPort, theSignalSource,
                   theRawSignalPort, sigaction, stopped, inCallback,
                   isSuccess, created, freed, ranLoop>>

SignalQueued == \E nSignal \in Signals : SignalHandler(nSignal, TRUE)

SignalLost == \E nSignal \in Signals : SignalHandler(nSignal, FALSE)

(* SignalHandler() of part_000 runs: CFRunLoopStop() marks the run loop    *)
(* stopped when the loop is running and does nothing when it is not.       *)
SignalHandlerPlain(nSignal) ==
    /\ build = "part_000"
    /\ pc # "exit"
    /\ sigaction[nSignal] = "SignalHandler"
    /\ stopped' = (stopped \/ pc = "running")
    /\ termSent' = (termSent \/ IsTermination(nSignal))
    /\ UNCHANGED <<pc, theMinTimestampDiff, theKeySet, keySetValues,
                   theEventTap, theEventTapSource, exitStatus, argv, history,
                   build, euid, ppid, theSignalPort, theSignalSource,
                   theRawSignalPort, sigaction, portQueue, inCallback,
                   isSuccess, created, freed, ranLoop>>

SignalStops == \E nSignal \in Signals : SignalHandlerPlain(nSignal)

(* A callback that stops the run loop for SIGINT only.                     *)
SignalCallBackIntOnly ==
    /\ pc = "running"
    /\ theSignalSource = "valid"
    /\ inCallback = NoEvent
    /\ ~stopped
    /\ portQueue # <<>>
    /\ stopped' = (Head(portQueue) = SIGINT)
    /\ portQueue' = Tail(portQueue)
    /\ UNCHANGED <<pc, theMinTimestampDiff, theKeySet, keySetValues,
                   theEventTap, theEventTapSource, exitStatus, argv, history,
                   build, euid, ppid, theSignalPort, theSignalSource,
                   theRawSignalPort, sigaction, inCallback, isSuccess,
                   created, freed, ranLoop, termSent>>

(* The run loop takes a message off the signal port and calls              *)
(* SignalCallBack(), which stops the loop for SIGINT and SIGTERM.          *)
SignalCallBack ==
    /\ pc = "running"
    /\ theSignalSource = "valid"
    /\ inCallback = NoEvent
    /\ ~stopped
    /\ portQueue # <<>>
    /\ stopped' = (Head(portQueue) \in {SIGINT, SIGTERM})
    /\ portQueue' = Tail(portQueue)
    /\ UNCHANGED <<pc, theMinTimestampDiff, theKeySet, keySetValues,
                   theEventTap, theEventTapSource, exitStatus, argv, history,
                   build, euid, ppid, theSignalPort, theSignalSource,
                   theRawSignalPort, sigaction, inCallback, isSuccess,
                   created, freed, ranLoop, termSent>>

(* A run loop that returns in the middle of a callback.                    *)
RunLoopReturnsAtOnce ==
    /\ pc = "running"
    /\ stopped
    /\ pc' = "Deinit_theEventTapSource"
    /\ UNCHANGED <<theMinTimestampDiff, theKeySet, keySetValues, theEventTap,
                   theEventTapSource, exitStatus, argv, history, process>>

(* CFRunLoopRun() returns: the loop was stopped and no callback is being   *)
(* made.  main() goes on to Deinit().                                      *)
RunLoopReturns ==
    /\ pc = "running"
    /\ stopped
    /\ inCallback = NoEvent
    /\ pc' = "Deinit_theEventTapSource"
    /\ UNCHANGED <<theMinTimestampDiff, theKeySet, keySetValues, theEventTap,
                   theEventTapSource, exitStatus, argv, history, process>>

(* freed with resource added when held says it is.                         *)
Release(held, resource) ==
    IF held = "valid" THEN Append(freed, resource) ELSE freed

(* Deinit(): the run-loop source of the tap.                               *)
DeinitEventTapSource ==
    /\ pc = "Deinit_theEventTapSource"
    /\ theEventTapSource' = "NULL"
    /\ freed' = Release(theEventTapSource, "theEventTapSource")
    /\ pc' = "Deinit_theEventTap"
    /\ UNCHANGED <<theMinTimestampDiff, theKeySet, keySetValues, theEventTap,
                   exitStatus, argv, history, build, euid, ppid,
                   theSignalPort, theSignalSource, theRawSignalPort,
                   sigaction, portQueue, stopped, inCallback, isSuccess,
                   created, ranLoop, termSent>>

(* Deinit(): the tap.                                                      *)
DeinitEventTap ==
    /\ pc = "Deinit_theEventTap"
    /\ theEventTap' = "NULL"
    /\ freed' = Release(theEventTap, "theEventTap")
    /\ pc' = "Deinit_theKeySet"
    /\ UNCHANGED <<theMinTimestampDiff, theKeySet, keySetValues,
                   theEventTapSource, exitStatus, argv, history, build, euid,
                   ppid, theSignalPort, theSignalSource, theRawSignalPort,
                   sigaction, portQueue, stopped, inCallback, isSuccess,
                   created, ranLoop, termSent>>

(* Deinit(): the table, with the records it holds.  Deinit() returns to    *)
(* Init(), which returns FALSE to main(), or to main().                    *)
DeinitKeySet ==
    /\ pc = "Deinit_theKeySet"
    /\ theKeySet' = "NULL"
    /\ keySetValues' = {}
    /\ freed' = Release(theKeySet, "theKeySet")
    /\ pc' = IF build = "DeKeyBounce.c" THEN "DeinitSignalHandling"
             ELSE "return"
    /\ UNCHANGED <<theMinTimestampDiff, theEventTap, theEventTapSource,
                   exitStatus, argv, history, build, euid, ppid,
                   theSignalPort, theSignalSource, theRawSignalPort,
                   sigaction, portQueue, stopped, inCallback, isSuccess,
                   created, ranLoop, termSent>>

(* DeinitSignalHandling() of DeKeyBounce.c, called by main() before it     *)
(* returns: the default dispositions, then the source and the port, with   *)
(* the messages still queued on it.                                        *)
DeinitSignalHandling ==
    /\ pc = "DeinitSignalHandling"
    /\ sigaction' = NoHandlers
    /\ theRawSignalPort' = "MACH_PORT_NULL"
    /\ theSignalSource' = "NULL"
    /\ theSignalPort' = "NULL"
    /\ portQueue' = <<>>
    /\ freed' = freed
          \o (IF theSignalSource = "valid" THEN <<"theSignalSource">>
              ELSE <<>>)
          \o (IF theSignalPort = "valid" THEN <<"theSignalPort">> ELSE <<>>)
    /\ pc' = "return"
    /\ UNCHANGED <<theMinTimestampDiff, theKeySet, keySetValues, theEventTap,
                   theEventTapSource, exitStatus, argv, history, build, euid,
                   ppid, stopped, inCallback, isSuccess, created, ranLoop,
                   termSent>>

(* main() returns: 1 when Init() failed, 0 after the run loop.             *)
Return ==
    /\ pc = "return"
    /\ exitStatus' = IF isSuccess THEN 0 ELSE 1
    /\ pc' = "exit"
    /\ UNCHANGED <<theMinTimestampDiff, theKeySet, keySetValues, theEventTap,
                   theEventTapSource, argv, history, process>>

(* What main() and the callbacks of the run loop do when they are given    *)
(* the processor, but for the two steps of the run loop below.             *)
MainStep ==
    \/ CheckUser
    \/ \E failAt \in 0 .. Len(SignalSteps) : InitSignalHandling(failAt)
    \/ InstallSignalHandlers
    \/ SetThreshold
    \/ \E isCreated \in BOOLEAN : InitKeySet(isCreated)
    \/ \E isCreated \in BOOLEAN : InitEventTap(isCreated)
    \/ \E isCreated \in BOOLEAN : InitEventTapSource(isCreated)
    \/ TapCallbackEnd
    \/ DeinitEventTapSource
    \/ DeinitEventTap
    \/ DeinitKeySet
    \/ DeinitSignalHandling
    \/ Return

NextLife ==
    \/ MainStep
    \/ SignalCallBack
    \/ RunLoopReturns
    \/ KeyDownBegins
    \/ KeyUpBegins
    \/ SignalQueued
    \/ SignalLost
    \/ SignalStops

SpecLife == InitLife /\ [][NextLife]_vars

(***************************************************************************)
(* The same with what the scheduling gives: main() and a callback that was *)
(* entered run on; a run loop serves a source that is ready again and      *)
(* again, and returns when it finds itself stopped between callbacks.      *)
(* Nothing is asked of the key events and the signals, which come or do    *)
(* not.                                                                    *)
(***************************************************************************)
Fairness ==
    /\ WF_vars(MainStep)
    /\ SF_vars(SignalCallBack)
    /\ SF_vars(RunLoopReturns)

SpecLifeFair == SpecLife /\ Fairness

TypeOK ==
    /\ pc \in {"main", "InitSignalHandling", "threshold", "Init_theKeySet",
              "Init_theEventTap", "Init_theEventTapSource", "running",
              "Deinit_theEventTapSource", "Deinit_theEventTap",
              "Deinit_theKeySet", "DeinitSignalHandling", "return", "exit"}
    /\ build \in Builds
    /\ sigaction \in [Signals -> {"SIG_DFL", "SIG_IGN", "SignalHandler"}]
    /\ Len(portQueue) <= MaxPending
    /\ stopped \in BOOLEAN
    /\ exitStatus \in {-1, 0, 1}
    /\ theMinTimestampDiff \in 0 .. MaxWord
    /\ \A r \in keySetValues :
          r.nKeyCode \in KeyCodes /\ r.nLastKeyUpTimestamp \in 0 .. MaxWord

(***************************************************************************)
(* Reading the event evaluated last.                                       *)
(***************************************************************************)
Evaluated == pc = "running" /\ last.aEventType # "none"

LastIsDown == Evaluated /\ last.aEventType = kCGEventKeyDown

LastIsUp == Evaluated /\ last.aEventType = kCGEventKeyUp

KeyRecord(k, t) == [nKeyCode |-> k, nLastKeyUpTimestamp |-> t]

(* The key of the last event had a record written by a key-up, and no      *)
(* key-down has been swallowed since: its baseline is the value recorded.  *)
HadReleaseBaseline ==
    /\ HasRecord(last.oldValues, last.nKeyCode)
    /\ ~last.oldOwed

OldBaseline ==
    (CHOOSE r \in RecordsOf(last.oldValues, last.nKeyCode) : TRUE)
        .nLastKeyUpTimestamp

(***************************************************************************)
(* C1: for a key whose record holds the timestamp T of a key-up, a         *)
(* key-down at a timestamp >= T + minInterval is passed and leaves T in    *)
(* place, and a key-down at a timestamp < T + minInterval is swallowed and *)
(* leaves the key PRESSED; for every T a key-up can record.                *)
(***************************************************************************)
C1_PressJudgedByBaseline ==
    (LastIsDown /\ HadReleaseBaseline) =>
        IF last.nTimestamp >= OldBaseline + theMinTimestampDiff
        THEN /\ last.verdict = Pass
             /\ RecordsOf(keySetValues, last.nKeyCode)
                    = {KeyRecord(last.nKeyCode, OldBaseline)}
        ELSE /\ last.verdict = Swallow
             /\ IsPressed(keySetValues, last.nKeyCode)

(***************************************************************************)
(* C2: for a key that is PRESSED, a key-down is swallowed and leaves the   *)
(* key PRESSED; a key-up is swallowed and makes its timestamp the key's    *)
(* baseline, so that the key is not PRESSED afterwards.                    *)
(***************************************************************************)
C2_PressedKey ==
    (Evaluated /\ IsPressed(last.oldValues, last.nKeyCode)) =>
        IF last.aEventType = kCGEventKeyDown
        THEN /\ last.verdict = Swallow
             /\ keySetValues = last.oldValues
        ELSE /\ last.verdict = Swallow
             /\ RecordsOf(keySetValues, last.nKeyCode)
                    = {KeyRecord(last.nKeyCode, last.nTimestamp)}
             /\ ~IsPressed(keySetValues, last.nKeyCode)

(***************************************************************************)
(* C3: a key-up at any timestamp t on a key without a record is passed and *)
(* creates the record with baseline t, which is not PRESSED; a key-down on *)
(* that key at a timestamp >= t + minInterval is then passed.              *)
(***************************************************************************)
C3_FirstRelease ==
    (LastIsUp /\ ~HasRecord(last.oldValues, last.nKeyCode)) =>
        /\ last.verdict = Pass
        /\ RecordsOf(keySetValues, last.nKeyCode)
               = {KeyRecord(last.nKeyCode, last.nTimestamp)}
        /\ ~IsPressed(keySetValues, last.nKeyCode)
        /\ \A t \in Timestamps :
              t >= last.nTimestamp + theMinTimestampDiff =>
                  OnKeyEvent(keySetValues, kCGEventKeyDown, last.nKeyCode,
                             t, theMinTimestampDiff).verdict = Pass

(***************************************************************************)
(* C4: a key-down on a key without a record is passed and creates no       *)
(* record, however many key-downs come before the first key-up.            *)
(***************************************************************************)
C4_PressOnAbsentKey ==
    (LastIsDown /\ (~HasRecord(last.oldValues, last.nKeyCode)
                        \/ last.nKeyCode \notin released)) =>
        /\ last.verdict = Pass
        /\ ~HasRecord(keySetValues, last.nKeyCode)
        /\ keySetValues = last.oldValues

C4_Witness ==
    /\ LastIsDown
    /\ ~HasRecord(last.oldValues, last.nKeyCode)
    /\ last.verdict = Pass
    /\ last.oldValues # {}

C6_ReleaseAfterSwallowedPress ==
    (LastIsUp /\ last.oldOwed) => last.verdict = Swallow

C6_Witness ==
    /\ LastIsUp
    /\ last.oldOwed
    /\ last.verdict = Swallow
    /\ \E k \in KeyCodes : k # last.nKeyCode /\ HasRecord(keySetValues, k)

(***************************************************************************)
(* C7: a key-up is swallowed only if a key-down on the same key has been   *)
(* swallowed and no key-up on that key was evaluated in between.           *)
(***************************************************************************)
C7_ReleaseSwallowedOnlyAfterSwallowedPress ==
    (LastIsUp /\ last.verdict = Swallow) => last.oldOwed

(***************************************************************************)
(* C8: a key is PRESSED only if the latest key-down evaluated for it was   *)
(* swallowed and no key-up for it has been evaluated since.                *)
(***************************************************************************)
C8_PressedOnlyAfterSwallowedPress ==
    pc = "running" =>
        \A k \in KeyCodes :
            IsPressed(keySetValues, k) => lastDown[k] = Swallow

(***************************************************************************)
(* C9: an event on one key changes no other key's record, and the verdicts *)
(* and the record of a key are those of an engine that was given the       *)
(* events of that key only.                                                *)
(***************************************************************************)
C9_KeysAreIndependent ==
    /\ pc = "running" =>
          \A k \in KeyCodes : RecordsOf(keySetValues, k) = solo[k]
    /\ Evaluated =>
          /\ last.verdict = last.soloVerdict
          /\ \A k \in KeyCodes \ {last.nKeyCode} :
                RecordsOf(keySetValues, k) = RecordsOf(last.oldValues, k)

C9_Witness ==
    /\ Evaluated
    /\ last.verdict = Swallow
    /\ \E k \in KeyCodes \ {last.nKeyCode} :
          /\ HasRecord(last.oldValues, k)
          /\ ~IsPressed(last.oldValues, k)
          /\ IsPressed(keySetValues, last.nKeyCode)

(***************************************************************************)
(* C10: while the engine runs the table holds at most one record per key,  *)
(* a key has a record exactly when a key-up for it has been evaluated, and *)
(* no event removes a record.                                              *)
(***************************************************************************)
C10_OneRecordPerReleasedKey ==
    /\ pc = "running" =>
          \A k \in KeyCodes :
              /\ Cardinality(RecordsOf(keySetValues, k)) <= 1
              /\ HasRecord(keySetValues, k) <=> k \in released
    /\ Evaluated =>
          \A k \in KeyCodes :
              HasRecord(last.oldValues, k) => HasRecord(keySetValues, k)

C10_Witness ==
    /\ Evaluated
    /\ released = KeyCodes
    /\ \A k \in KeyCodes : Cardinality(RecordsOf(keySetValues, k)) = 1
    /\ HasRecord(last.oldValues, last.nKeyCode)

(***************************************************************************)
(* C11: with minInterval 20 ms and a fresh engine, Release(A,0),           *)
(* Press(A,5), Release(A,8), Press(A,40), Release(A,60) get the verdicts   *)
(* Pass, Swallow, Swallow, Pass, Pass, and A's state after each step is    *)
(* baseline 0 (a baseline, not PRESSED), PRESSED, baseline 8, baseline 8,  *)
(* baseline 60.                                                            *)
(***************************************************************************)
ScenarioVerdicts == <<Pass, Swallow, Swallow, Pass, Pass>>

ScenarioPressed == <<FALSE, TRUE, FALSE, FALSE, FALSE>>

ScenarioBaseline == <<0, 0, 8000000, 8000000, 60000000>>

InScenario ==
    /\ pc = "running"
    /\ scen >= 1
    /\ theMinTimestampDiff = 20 * NS_PER_MS

C11_ScenarioVerdictsOnly ==
    InScenario => last.verdict = ScenarioVerdicts[scen]

C11_Scenario ==
    InScenario =>
        /\ last.verdict = ScenarioVerdicts[scen]
        /\ IF ScenarioPressed[scen]
           THEN IsPressed(keySetValues, ScenarioKey)
           ELSE /\ ~IsPressed(keySetValues, ScenarioKey)
                /\ RecordsOf(keySetValues, ScenarioKey)
                       = {KeyRecord(ScenarioKey, ScenarioBaseline[scen])}

(***************************************************************************)
(* C12: a start-up with the argument 0, or with no argument, behaves as    *)
(* the start-up with the argument 20: the threshold is 20 ms in ns, and    *)
(* every event gets the verdict and leaves the table that the engine       *)
(* started with 20 gets and leaves.                                        *)
(***************************************************************************)
C12_ZeroSelectsDefault ==
    (pc = "running" /\ SelectsDefault(argv)) =>
        /\ theMinTimestampDiff = MinTimestampDiff(<<Digits(20)>>)
        /\ theMinTimestampDiff = 20 * NS_PER_MS
        /\ keySetValues = twin
        /\ Evaluated => last.verdict = last.twinVerdict

C12_Witness ==
    /\ Evaluated
    /\ argv = <<Digits(0)>>
    /\ last.aEventType = kCGEventKeyDown
    /\ last.verdict = Swallow
    /\ last.nTimestamp > 1 * NS_PER_MS
    /\ ~IsPressed(last.oldValues, last.nKeyCode)

(***************************************************************************)
(* C13: for every start-up argument the threshold in use when an event is  *)
(* evaluated is strictly positive.                                         *)
(***************************************************************************)
C13_ThresholdPositive ==
    Evaluated => theMinTimestampDiff > 0

(***************************************************************************)
(* C16: when every key's events alternate strictly and the timestamps      *)
(* never decrease, a key-down is swallowed if and only if a key-up on the  *)
(* same key precedes it and it comes less than minInterval after the       *)
(* latest one.                                                             *)
(***************************************************************************)
C16_PressSwallowedIffTooSoon ==
    (LastIsDown /\ input = "ordered") =>
        (last.verdict = Swallow
            <=> /\ last.oldLastUp >= 0
                /\ last.nTimestamp - last.oldLastUp < theMinTimestampDiff)

(***************************************************************************)
(* C17: when every key's events alternate strictly, the passed events of   *)
(* each key alternate strictly too: a key-up is swallowed exactly when the *)
(* key-down just before it on that key was swallowed.                      *)
(***************************************************************************)
C17_PassedEventsAlternate ==
    (Evaluated /\ input # "any") =>
        /\ last.verdict = Pass => last.aEventType # last.oldLastPassed
        /\ last.aEventType = kCGEventKeyUp =>
               (last.verdict = Swallow <=> last.oldLastDown = Swallow)

C17_Witness ==
    /\ Evaluated
    /\ input # "any"
    /\ last.aEventType = kCGEventKeyUp
    /\ last.verdict = Swallow
    /\ last.oldLastDown = Swallow
    /\ last.oldLastPassed = kCGEventKeyUp
    /\ \E k \in KeyCodes \ {last.nKeyCode} :
          lastPassed[k] = kCGEventKeyDown

(***************************************************************************)
(* C18: the comparison of a key-down's timestamp with T + minInterval in   *)
(* the arithmetic of the word gives the verdict that the comparison in     *)
(* unbounded integers gives, for every T, threshold and timestamp.         *)
(***************************************************************************)
C18_ComparisonDoesNotWrap ==
    (LastIsDown /\ HasRecord(last.oldValues, last.nKeyCode)
                /\ ~IsPressed(last.oldValues, last.nKeyCode)) =>
        (last.verdict = Swallow
            <=> last.nTimestamp < OldBaseline + theMinTimestampDiff)

(***************************************************************************)
(* C14: in every interleaving of the key events with a termination signal, *)
(* the key table exists for as long as a call of OnKeyEvent is in          *)
(* progress, so that it is neither released during a call nor missing when *)
(* a call begins; the table exists whenever the event tap does, and the    *)
(* tap whenever its run-loop source does.                                  *)
(***************************************************************************)
C14_EvaluationExcludesTeardown ==
    /\ inCallback # NoEvent => theKeySet = "valid"
    /\ theEventTap = "valid" => theKeySet = "valid"
    /\ theEventTapSource = "valid" => theEventTap = "valid"

(* A termination signal has stopped the run loop while OnKeyEvent is at    *)
(* work.                                                                   *)
C14_Witness ==
    /\ inCallback # NoEvent
    /\ stopped
    /\ termSent
    /\ pc = "running"
    /\ theKeySet = "valid"

(* The resources released so far.                                          *)
Freed == {freed[i] : i \in 1 .. Len(freed)}

(***************************************************************************)
(* C19: a process that is not root or whose parent is not init exits with  *)
(* status 1 and has created neither the key table nor the event tap; a     *)
(* process whose Init() did not succeed never enters the run loop, and     *)
(* when it has exited its status is 1, the table, the tap and the tap's    *)
(* source are released, as is everything else it created, and in           *)
(* DeKeyBounce.c the signal port and its source are released and the       *)
(* signal dispositions are the default ones again.                         *)
(***************************************************************************)
C19_StartupFailureLeavesNothing ==
    /\ (pc = "exit" /\ (euid # 0 \/ ppid # 1)) =>
           /\ exitStatus = 1
           /\ created \cap {"theKeySet", "theEventTap"} = {}
    /\ ~isSuccess => (pc # "running" /\ ~ranLoop)
    /\ (pc = "exit" /\ ~isSuccess) =>
           /\ exitStatus = 1
           /\ theKeySet = "NULL"
           /\ theEventTap = "NULL"
           /\ theEventTapSource = "NULL"
           /\ Freed = created
           /\ build = "DeKeyBounce.c" =>
                  /\ theSignalPort = "NULL"
                  /\ theSignalSource = "NULL"
                  /\ theRawSignalPort = "MACH_PORT_NULL"
                  /\ sigaction = NoHandlers

(* DeKeyBounce.c has exited after the creation of the tap's run-loop       *)
(* source failed: the table, the tap, the signal source and the signal     *)
(* port had been created.                                                  *)
C19_Witness ==
    /\ pc = "exit"
    /\ exitStatus = 1
    /\ build = "DeKeyBounce.c"
    /\ created = {"theSignalPort", "theSignalSource", "theKeySet",
                  "theEventTap"}
    /\ freed = <<"theEventTap", "theKeySet", "theSignalSource",
                 "theSignalPort">>

(* The run loop is running and holds a termination request: in             *)
(* DeKeyBounce.c a SIGINT or SIGTERM message is queued on the signal port, *)
(* in part_000 the handler has run.                                        *)
TerminationTaken ==
    /\ pc = "running"
    /\ IF build = "DeKeyBounce.c"
       THEN \E i \in 1 .. Len(portQueue) : portQueue[i] \in {SIGINT, SIGTERM}
       ELSE termSent

ExitedCleanly == pc = "exit" /\ exitStatus = 0

(* After a successful Init() nothing is released before the run loop was   *)
(* stopped, the releases begin with the tap's source, the tap and the      *)
(* table in that order, and the process exits with all three released and  *)
(* with status 0.                                                          *)
TeardownInOrder ==
    isSuccess =>
        /\ freed # <<>> => stopped
        /\ \E n \in 0 .. 3 :
              SubSeq(freed, 1, n) = SubSeq(<<"theEventTapSource",
                                            "theEventTap", "theKeySet">>,
                                          1, n)
                  /\ (n < 3 => Len(freed) = n)
        /\ pc = "exit" =>
              /\ exitStatus = 0
              /\ {"theEventTapSource", "theEventTap", "theKeySet"}
                     \subseteq Freed
              /\ theEventTapSource = "NULL"
              /\ theEventTap = "NULL"
              /\ theKeySet = "NULL"

====
